---- MODULE Spec2Model ----
(***************************************************************************)
(* sgbv_analyzer: the scoring/ranking engine of core.py (scrape, analyze)  *)
(* and the worker thread / main window protocol of main.py.                *)
(*                                                                         *)
(* Python indexes from 0, TLA+ sequences from 1: row[k] of the source is   *)
(* row[k+1] here.  The index sets benefit_idx and cost_idx keep the        *)
(* source's 0-based values and are used as vec[k+1].                       *)
(*                                                                         *)
(* Floats are fixed-point integers in units of 1/Scale.  A float that can  *)
(* be NaN is a record [nan, v]; arithmetic and comparisons on it follow    *)
(* IEEE-754 (every comparison with NaN is false, NaN propagates).          *)
(***************************************************************************)
EXTENDS Integers, Sequences, FiniteSets, TLC

VARIABLES
    \* ---- main.py: MainWindow and its ScrapingThread
    load_enabled,      \* load_button.isEnabled()
    refresh_enabled,   \* refresh_button.isEnabled()
    progress_visible,  \* progress_bar.isVisible()
    progress_value,    \* progress_bar.value()
    status_label,      \* status_label.text(), by kind
    rowCount,          \* table_widget.rowCount()
    scraping_thread,   \* self.scraping_thread: None or the thread's record
    queue,             \* signals posted to the main thread, not yet delivered
    modal,             \* the QMessageBox of on_error is open
    closed,            \* closeEvent accepted: the application has ended
    aborted,           \* the process was aborted by Qt
    running,           \* number of worker threads inside run()
    \* ---- core.py: analyze called directly on a caller-owned list
    a_input,           \* the record set as first passed in (ghost copy)
    a_matrix,          \* the caller's list, as analyze leaves it
    a_ret,             \* what the last call returned
    a_status,          \* "new", "returned" or "raised"
    a_calls,           \* number of calls made on a_matrix
    a_sign             \* sign the principal axis took in the last call

gui_vars == <<load_enabled, refresh_enabled, progress_visible, progress_value,
              status_label, rowCount, scraping_thread, queue, modal,
              closed, aborted, running>>
a_vars == <<a_input, a_matrix, a_ret, a_status, a_calls, a_sign>>
vars == <<gui_vars, a_vars>>

\* ------------------------------------------------------------------ bounds
MaxRows == 3        \* data rows in an input record set
MaxCalls == 2       \* calls of analyze on the same list

\* --------------------------------------------------------- number helpers
\* dtype=float: fixed-point resolution of the model's floats
Scale == 1000

NaN == [nan |-> TRUE, v |-> 0]
Fl(x) == [nan |-> FALSE, v |-> x]

Abs(x) == IF x < 0 THEN -x ELSE x

RECURSIVE SeqOf(_, _)
\* <<Op(1), ..., Op(n)>> as an explicit tuple
SeqOf(Op(_), n) == IF n = 0 THEN <<>> ELSE Append(SeqOf(Op, n - 1), Op(n))

RECURSIVE SumSeq(_)
SumSeq(s) == IF s = <<>> THEN 0 ELSE Head(s) + SumSeq(Tail(s))

RECURSIVE MaxSeq(_)
MaxSeq(s) ==
    IF Len(s) = 1 THEN s[1]
    ELSE LET m == MaxSeq(Tail(s)) IN IF s[1] > m THEN s[1] ELSE m

RECURSIVE MinSeq(_)
MinSeq(s) ==
    IF Len(s) = 1 THEN s[1]
    ELSE LET m == MinSeq(Tail(s)) IN IF s[1] < m THEN s[1] ELSE m

RECURSIVE SqrtBetween(_, _, _)
\* the r in lo..hi with r*r <= n < (r+1)*(r+1), by bisection
SqrtBetween(n, lo, hi) ==
    IF lo >= hi THEN lo
    ELSE LET mid == (lo + hi + 1) \div 2
         IN  IF mid * mid <= n THEN SqrtBetween(n, mid, hi)
                               ELSE SqrtBetween(n, lo, mid - 1)

\* np.linalg.norm's square root, on a sum of squares given in units of
\* 1/Scale^2; the result is in units of 1/Scale
Sqrt(n) == SqrtBetween(n, 0, 4 * Scale)

\* np.tanh(pe / 50) in units of 1/Scale, tabulated at pe = 0, 5, 10, ...
TanhTable ==
    <<0, 100, 197, 291, 380, 462, 537, 604, 664, 716, 762, 800, 834, 862,
      885, 905, 922, 935, 947, 956, 964, 970, 976, 980, 984, 987, 989, 991,
      993, 994, 995, 996, 997, 997, 998, 998, 999, 999, 999, 999, 999, 999,
      1000>>

\* tanh(pe / 50) for pe >= 0: linear interpolation in the table, 1 beyond it
TanhPos(pe) ==
    LET i == pe \div 5
        r == pe % 5
    IN  IF i + 1 >= Len(TanhTable) THEN Scale
        ELSE TanhTable[i + 1] + ((TanhTable[i + 2] - TanhTable[i + 1]) * r) \div 5

\* tanh is odd
Tanh50(pe) == IF pe >= 0 THEN TanhPos(pe) ELSE -TanhPos(-pe)

\* IEEE-754 comparisons on floats that may be NaN
FLt(a, b) == ~a.nan /\ ~b.nan /\ a.v < b.v
FGe(a, b) == ~a.nan /\ ~b.nan /\ a.v >= b.v
AnyNaN(arr) == \E i \in 1..Len(arr) : arr[i].nan

\* ------------------------------------------------------- core.py: scrape
\* The table as parsed row by row (header first); the request itself may
\* raise.  scrape drops the header row.
scrape(table) == IF Len(table) > 1 THEN Tail(table) ELSE <<>>

\* ------------------------------------------------------ core.py: analyze
\* Each operator below takes what it reads as parameters, so that every
\* intermediate array is computed once, as in the source.
benefit_idx == {2, 3, 4, 6, 7, 8}
cost_idx == {0, 1, 5}

\* the weight vector, in tenths
weights == <<-2, -2, -2, 2, 2, -2, 2, 2, 2>>

\* row[10] is the last cell read: a shorter row raises IndexError
HasShortRow(matrix) == \E i \in 1..Len(matrix) : Len(matrix[i]) < 11

\* the 9 features of a row, closing replaced by opening when it is 0
features(row) ==
    <<row[3], IF row[4] # 0 THEN row[4] ELSE row[3], row[5], row[6], row[7],
      row[8], row[9], row[10], row[11]>>

numeric_data(matrix) == SeqOf(LAMBDA i : features(matrix[i]), Len(matrix))

Column(X, k) == SeqOf(LAMBDA i : X[i][k], Len(X))

\* np.min / np.max / sum over axis 0
ColMin(X) == SeqOf(LAMBDA k : MinSeq(Column(X, k)), 9)
ColMax(X) == SeqOf(LAMBDA k : MaxSeq(Column(X, k)), 9)
ColSum(X) == SeqOf(LAMBDA k : SumSeq(Column(X, k)), 9)

\* (v - min) / (max - min); a constant column is scaled by 1
ScaleCell(v, lo, hi) == IF hi = lo THEN v - lo ELSE ((v - lo) * Scale) \div (hi - lo)

ScaleBy(X, data_min, data_max) ==
    SeqOf(LAMBDA i : SeqOf(LAMBDA k : ScaleCell(X[i][k], data_min[k], data_max[k]), 9),
          Len(X))

\* MinMaxScaler().fit_transform(X)
X_scaled(X) == ScaleBy(X, ColMin(X), ColMax(X))

Dot(a, b) == SumSeq(SeqOf(LAMBDA k : a[k] * b[k], Len(a)))

\* n * (row - column mean), exact in integers
CenterBy(Xs, colsum) ==
    SeqOf(LAMBDA i : SeqOf(LAMBDA k : Len(Xs) * Xs[i][k] - colsum[k], 9), Len(Xs))

\* Gram matrix of the centred rows, in units of 1/Scale
Gram(Yc) ==
    SeqOf(LAMBDA i : SeqOf(LAMBDA j : Dot(Yc[i], Yc[j]) \div (Len(Yc) * Len(Yc) * Scale),
                           Len(Yc)),
          Len(Yc))

MaxAbs(w) == MaxSeq(SeqOf(LAMBDA i : Abs(w[i]), Len(w)))

\* w rescaled to magnitude <= Scale; a zero w leaves v as it is
Rescale(w, m, v) ==
    IF m = 0 THEN v ELSE SeqOf(LAMBDA i : w[i] \div ((m + Scale - 1) \div Scale), Len(w))

MatVec(G, v) == SeqOf(LAMBDA i : Dot(G[i], v), Len(v))

RescaleTo(w, v) == Rescale(w, MaxAbs(w), v)

\* one step of the power iteration v <- G v
PowerStep(G, v) == RescaleTo(MatVec(G, v), v)

RECURSIVE PowerFrom(_, _, _, _)
\* k more steps from iterate w, which is computed before the step is taken
PowerFrom(G, v, w, k) ==
    IF k = 0 \/ Len(w) # Len(v) THEN w ELSE PowerFrom(G, w, PowerStep(G, w), k - 1)

PowerIterate(G, v, k) == PowerFrom(G, v, v, k)

RECURSIVE Pow2(_)
Pow2(k) == IF k = 0 THEN 1 ELSE 2 * Pow2(k - 1)

\* the dominant eigenvector of G up to a positive factor, 0 for G = 0
Dominant(G) ==
    IF \A i \in 1..Len(G) : \A j \in 1..Len(G) : G[i][j] = 0
    THEN SeqOf(LAMBDA i : 0, Len(G))
    ELSE PowerIterate(G, SeqOf(LAMBDA i : Scale \div Pow2(i - 1), Len(G)), 24)

Oriented(v, sgn) == SeqOf(LAMBDA i : sgn * v[i], Len(v))

\* PCA(n_components=1).fit_transform(Xs).flatten(): the rows, mean-centred,
\* projected on the first principal axis.  The projections are s1 * u1 with
\* u1 the dominant eigenvector of the Gram matrix of the centred rows; they
\* are computed here up to a positive factor (normalize removes it), by
\* power iteration.  The axis has no canonical sign: sgn is the sign the
\* linear-algebra routine happens to return.
pca_scores(Xs, sgn) == Oriented(Dominant(Gram(CenterBy(Xs, ColSum(Xs)))), sgn)

\* np.max / np.min per column, then swapped for the cost columns
ideal_best(Xs) ==
    SeqOf(LAMBDA k : IF (k - 1) \in cost_idx THEN MinSeq(Column(Xs, k))
                                             ELSE MaxSeq(Column(Xs, k)), 9)

ideal_worst(Xs) ==
    SeqOf(LAMBDA k : IF (k - 1) \in cost_idx THEN MaxSeq(Column(Xs, k))
                                             ELSE MinSeq(Column(Xs, k)), 9)

SqDiff(a, b) == (a - b) * (a - b)

\* np.linalg.norm(Xs - p, axis=1)
Distances(Xs, p) ==
    SeqOf(LAMBDA i : Sqrt(SumSeq(SeqOf(LAMBDA k : SqDiff(Xs[i][k], p[k]), 9))), Len(Xs))

dist_best(Xs) == Distances(Xs, ideal_best(Xs))
dist_worst(Xs) == Distances(Xs, ideal_worst(Xs))

\* dist_worst / (dist_best + dist_worst); numpy's 0.0 / 0.0 is NaN
Ratio(dw, db) == IF db + dw = 0 THEN NaN ELSE Fl((dw * Scale) \div (db + dw))

Ratios(dw, db) == SeqOf(LAMBDA i : Ratio(dw[i], db[i]), Len(dw))

topsis_scores(Xs) == Ratios(dist_worst(Xs), dist_best(Xs))

\* X_scaled @ weights - tanh(X[:, 5] / 50), in units of 1/(10 * Scale)
weighted_scores(X, Xs) ==
    SeqOf(LAMBDA i : Dot(Xs[i], weights) - 10 * Tanh50(X[i][6]), Len(X))

Vals(arr) == SeqOf(LAMBDA i : arr[i].v, Len(arr))

NormalizeBetween(vals, lo, hi) ==
    SeqOf(LAMBDA i : IF hi = lo THEN Fl(0) ELSE Fl(((vals[i] - lo) * Scale) \div (hi - lo)),
          Len(vals))

NormalizeVals(vals) == NormalizeBetween(vals, MinSeq(vals), MaxSeq(vals))

\* (arr - arr.min()) / (arr.max() - arr.min() + 1e-9).  A NaN in arr makes
\* min and max NaN, hence every entry.  1e-9 is below the resolution: it
\* shows only for a constant arr, where it makes the quotient 0 / 1e-9 = 0.
normalize(arr) ==
    IF AnyNaN(arr) THEN SeqOf(LAMBDA i : NaN, Len(arr)) ELSE NormalizeVals(Vals(arr))

Floats(ints) == SeqOf(LAMBDA i : Fl(ints[i]), Len(ints))

Mean3(a, b, c) == IF a.nan \/ b.nan \/ c.nan THEN NaN ELSE Fl((a.v + b.v + c.v) \div 3)

\* (pca_norm + topsis_norm + weighted_norm) / 3
Combine(pca_norm, topsis_norm, weighted_norm) ==
    SeqOf(LAMBDA i : Mean3(pca_norm[i], topsis_norm[i], weighted_norm[i]), Len(pca_norm))

ScoresOf(X, Xs, sgn) ==
    Combine(normalize(Floats(pca_scores(Xs, sgn))),
            normalize(topsis_scores(Xs)),
            normalize(Floats(weighted_scores(X, Xs))))

final_score(X, sgn) == ScoresOf(X, X_scaled(X), sgn)

\* the sort key r[-1]
Key(r) == r[Len(r)]

RECURSIVE InsertDesc(_, _)
\* x goes before the first row whose key is less than its own
InsertDesc(L, x) ==
    IF L = <<>> THEN <<x>>
    ELSE IF FLt(Key(Head(L)), Key(x)) THEN <<x>> \o L
    ELSE <<Head(L)>> \o InsertDesc(Tail(L), x)

RECURSIVE SortFrom(_, _)
SortFrom(done, rest) ==
    IF rest = <<>> THEN done ELSE SortFrom(InsertDesc(done, Head(rest)), Tail(rest))

RECURSIVE InsertAsc(_, _)
InsertAsc(L, x) ==
    IF L = <<>> THEN <<x>>
    ELSE IF FLt(Key(x), Key(Head(L))) THEN <<x>> \o L
    ELSE <<Head(L)>> \o InsertAsc(Tail(L), x)

RECURSIVE SortAscFrom(_, _)
SortAscFrom(done, rest) ==
    IF rest = <<>> THEN done ELSE SortAscFrom(InsertAsc(done, Head(rest)), Tail(rest))

\* faulty variant: the sort without reverse=True
matrix_sorted_ascending(matrix) == SortAscFrom(<<>>, matrix)

\* sorted(matrix, key=lambda r: r[-1], reverse=True): stable, descending
matrix_sorted(matrix) == SortFrom(<<>>, matrix)

\* for i, row in enumerate(matrix): row.append(float(final_score[i]))
Appended(matrix, score) == SeqOf(LAMBDA i : Append(matrix[i], score[i]), Len(matrix))

Raise(exc, matrix) == [raised |-> TRUE, exc |-> exc, matrix |-> matrix, ret |-> <<>>]

\* the rows are extended in place: the caller's list is now m
Return(m) == [raised |-> FALSE, exc |-> "", matrix |-> m, ret |-> matrix_sorted(m)]

LongEnough(row) == Len(row) >= 11

RankedRows(matrix, rows, sgn) ==
    [raised |-> FALSE, exc |-> "", matrix |-> matrix,
     ret |-> matrix_sorted(Appended(rows, final_score(numeric_data(rows), sgn)))]

\* faulty variant: rows that are too short are skipped and the rest is ranked
analyze_skipping_short_rows(matrix, sgn) ==
    IF Len(SelectSeq(matrix, LongEnough)) = 0 THEN Raise("ValueError", matrix)
    ELSE RankedRows(matrix, SelectSeq(matrix, LongEnough), sgn)

\* analyze(matrix): what it raises or returns, and the caller's list as the
\* call leaves it.  MinMaxScaler refuses the empty array.
analyze(matrix, sgn) ==
    IF HasShortRow(matrix) THEN Raise("IndexError", matrix)
    ELSE IF Len(matrix) = 0 THEN Raise("ValueError", matrix)
    ELSE Return(Appended(matrix, final_score(numeric_data(matrix), sgn)))

\* ---------------------------------------------------------- input space
rA == <<1, "ALPHA", 10, 11, 5, 6, 9, 10, 4, 500, 5000>>
rB == <<2, "BETA", 30, 31, 1, 1, 2, 40, 1, 100, 1000>>
rC == <<3, "GAMMA", 20, 0, 3, 4, 5, 25, 2, 300, 3000>>
rF == <<4, "ZETA", 30, 8, 1, 1, 2, 40, 1, 100, 1000>>
rA2 == <<5, "ALPHA2", 10, 11, 5, 6, 9, 10, 4, 500, 5000>>
rG == <<6, "ETA", 40, 41, -2, -1, 0, 60, 0, 50, 500>>
rShort == <<7, "SHORT", 10, 11, 5>>
header == <<"ID", "Company">>

RowCatalog == {rA, rB, rC, rF, rA2, rG, rShort}

RECURSIVE SeqsUpTo(_, _)
\* all sequences over S of length at most n
SeqsUpTo(S, n) ==
    IF n = 0 THEN {<<>>}
    ELSE {<<>>} \cup {<<x>> \o s : x \in S, s \in SeqsUpTo(S, n - 1)}

\* no row occurs twice
Distinct(s) == \A i, j \in 1..Len(s) : i # j => s[i] # s[j]

DistinctSeqsUpTo(S, n) == {s \in SeqsUpTo(S, n) : Distinct(s)}

RecordSets == DistinctSeqsUpTo(RowCatalog, MaxRows)

\* the two orientations the principal axis can take
Signs == {1, 0 - 1}

\* ------------------------------------------- main.py: initial GUI state
\* self.scraping_thread = None; a thread is a record of its position in
\* run(), its locals and the signals it has emitted so far
None == [pc |-> "none", scraped |-> FALSE, matrix |-> <<>>, ranked_data |-> <<>>,
         exc |-> "", emitted |-> <<>>]

GuiInit ==
    /\ load_enabled = TRUE
    /\ refresh_enabled = FALSE
    /\ progress_visible = FALSE
    /\ progress_value = 0
    /\ status_label = "Ready to load data"
    /\ rowCount = 0
    /\ scraping_thread = None
    /\ queue = <<>>
    /\ modal = FALSE
    /\ closed = FALSE
    /\ aborted = FALSE
    /\ running = 0

\* analyze is not being called directly
AnalyzeIdle ==
    /\ a_input = <<>>
    /\ a_matrix = <<>>
    /\ a_ret = <<>>
    /\ a_status = "new"
    /\ a_calls = 0
    /\ a_sign = 1

\* the tables the remote page can hold: none, or a header and data rows
WebRows == {rA, rB, rShort}
WebTables == {<<>>} \cup {<<header>> \o rows : rows \in DistinctSeqsUpTo(WebRows, MaxRows)}

\* ------------------------------------------ main.py: ScrapingThread.run
RunningPcs == {"p20", "scrape", "p60", "p80", "analyze", "p100", "finished",
               "except", "returning"}

\* QThread.isRunning(): run() has been entered and has not returned
isRunning(t) == t.pc \in RunningPcs

\* the process is alive: the window is open and Qt has not aborted
Alive == ~closed /\ ~aborted

Signal(sig, arg) == [sig |-> sig, arg |-> arg]

\* signal.emit(arg) from the worker: posted to the main thread's queue
Emit(sig, arg, pc) ==
    /\ queue' = Append(queue, Signal(sig, arg))
    /\ scraping_thread' =
          [scraping_thread EXCEPT !.pc = pc,
                                  !.emitted = Append(@, Signal(sig, arg))]

gui_frame == <<load_enabled, refresh_enabled, progress_visible, progress_value,
               status_label, rowCount, modal, closed, aborted>>
worker_frame == <<gui_frame, running>>

\* self.progress.emit(20)
RunProgress20 ==
    /\ Alive /\ scraping_thread.pc = "p20"
    /\ Emit("progress", 20, "scrape")
    /\ UNCHANGED <<worker_frame, a_vars>>

\* matrix = scrape(), the request answered
RunScrape ==
    /\ Alive /\ scraping_thread.pc = "scrape"
    /\ \E table \in WebTables :
          scraping_thread' = [scraping_thread EXCEPT !.pc = "p60",
                                                     !.scraped = TRUE,
                                                     !.matrix = scrape(table)]
    /\ UNCHANGED <<queue, worker_frame, a_vars>>

\* matrix = scrape(), requests.get or raise_for_status raising
RunScrapeRaises ==
    /\ Alive /\ scraping_thread.pc = "scrape"
    /\ scraping_thread' = [scraping_thread EXCEPT !.pc = "except",
                                                  !.exc = "RequestException"]
    /\ UNCHANGED <<queue, worker_frame, a_vars>>

\* self.progress.emit(60)
RunProgress60 ==
    /\ Alive /\ scraping_thread.pc = "p60"
    /\ Emit("progress", 60, "p80")
    /\ UNCHANGED <<worker_frame, a_vars>>

\* self.progress.emit(80)
RunProgress80 ==
    /\ Alive /\ scraping_thread.pc = "p80"
    /\ Emit("progress", 80, "analyze")
    /\ UNCHANGED <<worker_frame, a_vars>>

\* the thread after ranked_data = analyze(matrix) gave r
AfterAnalyze(t, r) ==
    IF r.raised
    THEN [t EXCEPT !.pc = "except", !.exc = r.exc]
    ELSE [t EXCEPT !.pc = "p100", !.matrix = r.matrix, !.ranked_data = r.ret]

\* ranked_data = analyze(matrix)
RunAnalyze ==
    /\ Alive /\ scraping_thread.pc = "analyze"
    /\ \E sgn \in Signs :
          scraping_thread' =
              AfterAnalyze(scraping_thread, analyze(scraping_thread.matrix, sgn))
    /\ UNCHANGED <<queue, worker_frame, a_vars>>

\* self.progress.emit(100)
RunProgress100 ==
    /\ Alive /\ scraping_thread.pc = "p100"
    /\ Emit("progress", 100, "finished")
    /\ UNCHANGED <<worker_frame, a_vars>>

\* self.finished.emit(ranked_data)
RunFinished ==
    /\ Alive /\ scraping_thread.pc = "finished"
    /\ Emit("finished", scraping_thread.ranked_data, "returning")
    /\ UNCHANGED <<worker_frame, a_vars>>

\* faulty variant: the exception is swallowed and no signal is emitted
RunExceptSilent ==
    /\ Alive /\ scraping_thread.pc = "except"
    /\ scraping_thread' = [scraping_thread EXCEPT !.pc = "returning"]
    /\ UNCHANGED <<queue, worker_frame, a_vars>>

\* except Exception as e: self.error.emit(str(e))
RunExcept ==
    /\ Alive /\ scraping_thread.pc = "except"
    /\ Emit("error", scraping_thread.exc, "returning")
    /\ UNCHANGED <<worker_frame, a_vars>>

\* run() returns: the thread is no longer running
RunReturn ==
    /\ Alive /\ scraping_thread.pc = "returning"
    /\ scraping_thread' = [scraping_thread EXCEPT !.pc = "done"]
    /\ running' = running - 1
    /\ UNCHANGED <<queue, gui_frame, a_vars>>

\* ---------------------------------------------------- main.py: MainWindow
\* faulty variant: the load button is left enabled while loading
set_loading_state_load_on(loading, rc) ==
    [load |-> TRUE, refresh |-> (~loading /\ rc > 0), visible |-> loading]

\* set_loading_state(loading): the values it gives the two buttons and the
\* progress bar, rc being table_widget.rowCount()
set_loading_state(loading, rc) ==
    [load |-> ~loading, refresh |-> (~loading /\ rc > 0), visible |-> loading]

\* A fresh ScrapingThread, started
Started == [None EXCEPT !.pc = "p20"]

\* load_data().  Rebinding self.scraping_thread drops the last reference to
\* the previous QThread object; Qt aborts the process when a QThread is
\* destroyed while its run() has not returned.
load_data ==
    LET s == set_loading_state(TRUE, rowCount)
    IN  /\ load_enabled' = s.load
        /\ refresh_enabled' = s.refresh
        /\ progress_visible' = s.visible
        /\ status_label' = "Loading stock data..."
        /\ IF isRunning(scraping_thread)
           THEN /\ aborted' = TRUE
                /\ scraping_thread' = [scraping_thread EXCEPT !.pc = "killed"]
                /\ running' = 0
           ELSE /\ aborted' = aborted
                /\ scraping_thread' = Started
                /\ running' = running + 1
        /\ UNCHANGED <<progress_value, rowCount, queue, modal, closed, a_vars>>

\* load_button.clicked; a disabled button emits nothing, and the open
\* message box keeps input from the main window
ClickLoad == Alive /\ ~modal /\ load_enabled /\ load_data

\* refresh_button.clicked
ClickRefresh == Alive /\ ~modal /\ refresh_enabled /\ load_data

\* progress.connect(self.progress_bar.setValue)
OnProgress ==
    /\ Alive /\ queue # <<>> /\ Head(queue).sig = "progress"
    /\ progress_value' = Head(queue).arg
    /\ queue' = Tail(queue)
    /\ UNCHANGED <<load_enabled, refresh_enabled, progress_visible, status_label,
                   rowCount, scraping_thread, modal, closed, aborted, running,
                   a_vars>>

\* on_data_loaded(data), populate_table(data) included
on_data_loaded(data) ==
    LET s == set_loading_state(FALSE, rowCount)
    IN  /\ load_enabled' = s.load
        /\ progress_visible' = s.visible
        /\ rowCount' = Len(data)
        /\ status_label' = "Data loaded successfully"
        /\ refresh_enabled' = TRUE

OnDataLoaded ==
    /\ Alive /\ queue # <<>> /\ Head(queue).sig = "finished"
    /\ on_data_loaded(Head(queue).arg)
    /\ queue' = Tail(queue)
    /\ UNCHANGED <<progress_value, scraping_thread, modal, closed, aborted, running,
                   a_vars>>

\* on_error(error_message): the message box opens
on_error(error_message) ==
    LET s == set_loading_state(FALSE, rowCount)
    IN  /\ load_enabled' = s.load
        /\ refresh_enabled' = s.refresh
        /\ progress_visible' = s.visible
        /\ status_label' = "Error loading data"
        /\ modal' = TRUE

OnError ==
    /\ Alive /\ queue # <<>> /\ Head(queue).sig = "error"
    /\ on_error(Head(queue).arg)
    /\ queue' = Tail(queue)
    /\ UNCHANGED <<progress_value, rowCount, scraping_thread, closed, aborted,
                   running, a_vars>>

\* the user closes the message box: QMessageBox.critical returns
DismissMessageBox ==
    /\ Alive /\ modal
    /\ modal' = FALSE
    /\ UNCHANGED <<load_enabled, refresh_enabled, progress_visible, progress_value,
                   status_label, rowCount, scraping_thread, queue, closed,
                   aborted, running, a_vars>>

\* closeEvent(event): a running thread is terminated and waited for
closeEvent ==
    /\ Alive /\ ~modal
    /\ scraping_thread' =
          IF scraping_thread.pc # "none" /\ isRunning(scraping_thread)
          THEN [scraping_thread EXCEPT !.pc = "killed"]
          ELSE scraping_thread
    /\ running' =
          IF scraping_thread.pc # "none" /\ isRunning(scraping_thread)
          THEN running - 1
          ELSE running
    /\ closed' = TRUE
    /\ UNCHANGED <<load_enabled, refresh_enabled, progress_visible, progress_value,
                   status_label, rowCount, queue, modal, aborted, a_vars>>

Init == GuiInit /\ AnalyzeIdle

Next ==
    \/ ClickLoad
    \/ ClickRefresh
    \/ RunProgress20
    \/ RunScrape
    \/ RunScrapeRaises
    \/ RunProgress60
    \/ RunProgress80
    \/ RunAnalyze
    \/ RunProgress100
    \/ RunFinished
    \/ RunExcept
    \/ RunReturn
    \/ OnProgress
    \/ OnDataLoaded
    \/ OnError
    \/ DismissMessageBox
    \/ closeEvent

Spec == Init /\ [][Next]_vars

\* ----------------------------------- analyze applied to a caller's list
InitAnalyze ==
    /\ GuiInit
    /\ a_input \in RecordSets
    /\ a_matrix = a_input
    /\ a_ret = <<>>
    /\ a_status = "new"
    /\ a_calls = 0
    /\ a_sign = 1

\* the caller's view after a call that gave r
Called(r, sgn) ==
    /\ a_matrix' = r.matrix
    /\ a_ret' = r.ret
    /\ a_status' = IF r.raised THEN "raised" ELSE "returned"
    /\ a_sign' = sgn

\* ranked = analyze(matrix), on the list the caller keeps
CallAnalyze ==
    /\ a_calls < MaxCalls
    /\ \E sgn \in Signs : Called(analyze(a_matrix, sgn), sgn)
    /\ a_calls' = a_calls + 1
    /\ UNCHANGED <<a_input, gui_vars>>

NextAnalyze == CallAnalyze

SpecAnalyze == InitAnalyze /\ [][NextAnalyze]_vars

\* =================================================================== claims
Last(seq) == seq[Len(seq)]
IsTerminal(e) == e.sig \in {"finished", "error"}
RunOver(t) == t.pc \in {"returning", "done"}
Count(seq, x) == Cardinality({i \in 1..Len(seq) : seq[i] = x})
First11(rows) == SeqOf(LAMBDA i : SubSeq(rows[i], 1, 11), Len(rows))

\* C1: when scrape returned no data rows, the run ends with the finished
\* signal carrying the empty list, and not with the error signal.
C1_EmptyInputFinishesEmpty ==
    (scraping_thread.scraped /\ Len(scraping_thread.matrix) = 0
        /\ RunOver(scraping_thread))
    => /\ Last(scraping_thread.emitted).sig = "finished"
       /\ Len(Last(scraping_thread.emitted).arg) = 0

\* C2: for well-formed records the composite score appended to every record
\* is a number s with 0 <= s <= 1, never NaN.
C2_CompositeInUnitInterval ==
    (a_calls >= 1 /\ a_status = "returned")
    => \A i \in 1..Len(a_ret) :
          /\ ~Key(a_ret[i]).nan
          /\ 0 <= Key(a_ret[i]).v
          /\ Key(a_ret[i]).v <= Scale

\* C3: the returned sequence holds exactly the input records, each once, and
\* every record's composite score is >= that of the record that follows it.
C3_PermutationSortedDescending ==
    (a_calls = 1 /\ a_status = "returned")
    => /\ Len(a_ret) = Len(a_input)
       /\ \A i \in 1..Len(a_input) :
             Count(First11(a_ret), a_input[i]) = Count(a_input, a_input[i])
       /\ \A i \in 1..(Len(a_ret) - 1) : FGe(Key(a_ret[i]), Key(a_ret[i + 1]))

\* A is strictly higher than B on every benefit column and strictly lower
\* on every cost column (feature k is cell k + 2 of the row, 0-based)
Dominates(A, B) ==
    /\ \A k \in benefit_idx : A[k + 3] > B[k + 3]
    /\ \A k \in cost_idx : A[k + 3] < B[k + 3]

DominantFirst(A, B) ==
    /\ a_status = "returned"
    /\ Len(a_ret) = 2
    /\ SubSeq(a_ret[1], 1, 11) = A
    /\ SubSeq(a_ret[2], 1, 11) = B
    /\ FLt(Key(a_ret[2]), Key(a_ret[1]))

\* C4: of two records A and B with A better on every column, analyze gives A
\* the strictly larger composite score and returns A first, whichever sign
\* the principal axis takes.
C4_DominantRecordRanksFirst ==
    (a_calls = 1 /\ Len(a_input) = 2 /\ ~HasShortRow(a_input))
    => \A i, j \in 1..2 :
          Dominates(a_input[i], a_input[j]) => DominantFirst(a_input[i], a_input[j])

\* C4 witness: B was passed first, the axis pointed away from A, A is first
C4_Witness ==
    /\ a_calls = 1 /\ Len(a_input) = 2 /\ ~HasShortRow(a_input)
    /\ Dominates(a_input[2], a_input[1])
    /\ a_sign = 0 - 1
    /\ DominantFirst(a_input[2], a_input[1])
    /\ a_input[2][4] = 0

\* C5: a data row with fewer than 11 cells fails the whole invocation:
\* analyze raises and returns nothing, the run never reaches progress 100 or
\* the finished signal, and it ends with the error signal.
C5_ShortRowFailsInvocation ==
    (scraping_thread.scraped /\ HasShortRow(scraping_thread.matrix))
    => /\ \A sgn \in Signs : analyze(scraping_thread.matrix, sgn).raised
       /\ \A sgn \in Signs : Len(analyze(scraping_thread.matrix, sgn).ret) = 0
       /\ scraping_thread.pc \notin {"p100", "finished"}
       /\ Len(scraping_thread.ranked_data) = 0
       /\ \A i \in 1..Len(scraping_thread.emitted) :
             scraping_thread.emitted[i].sig # "finished"
       /\ \A i \in 1..Len(queue) : queue[i].sig # "finished"
       /\ RunOver(scraping_thread) => Last(scraping_thread.emitted).sig = "error"

\* C5 witness: a run over a table whose second data row is short has ended
\* with the error signal
C5_Witness ==
    /\ scraping_thread.scraped
    /\ Len(scraping_thread.matrix) >= 2
    /\ ~HasShortRow(<<scraping_thread.matrix[1]>>)
    /\ HasShortRow(scraping_thread.matrix)
    /\ scraping_thread.pc = "done"
    /\ Last(scraping_thread.emitted).sig = "error"

\* C6: in the weight vector the weighted-penalty scorer applies, every cost
\* column has a negative weight and every benefit column a positive weight.
C6_WeightSignsFollowRoles ==
    a_calls >= 1
    => /\ \A k \in cost_idx : weights[k + 1] < 0
       /\ \A k \in benefit_idx : weights[k + 1] > 0

\* the ideal-point score as the design states it: 0.5 when both distances
\* are zero
SpecifiedRatio(dw, db) ==
    IF db = 0 /\ dw = 0 THEN Fl(Scale \div 2) ELSE Fl((dw * Scale) \div (db + dw))

TopsisAsSpecified(scores, dw, db) ==
    \A i \in 1..Len(scores) : scores[i] = SpecifiedRatio(dw[i], db[i])

TopsisOf(Xs) == TopsisAsSpecified(topsis_scores(Xs), dist_worst(Xs), dist_best(Xs))

\* C7: a record whose distances to ideal-best and ideal-worst are both zero
\* is not fatal and scores 0.5; every other record scores
\* d_worst / (d_best + d_worst).
C7_DegenerateDistanceScoresHalf ==
    (a_calls = 1 /\ ~HasShortRow(a_input) /\ Len(a_input) > 0)
    => /\ a_status = "returned"
       /\ TopsisOf(X_scaled(numeric_data(a_input)))

\* the progress values of a run are 20, 60, 80, 100 in this order
ProgressInOrder(emitted) ==
    \A i \in 1..Len(emitted) :
        emitted[i].sig = "progress" => (i <= 4 /\ emitted[i].arg = <<20, 60, 80, 100>>[i])

Emitted100(emitted) ==
    \E i \in 1..Len(emitted) : emitted[i].sig = "progress" /\ emitted[i].arg = 100

\* C8: a run that is not killed emits exactly one terminal signal, finished
\* or error; every progress signal precedes it; progress goes 20, 60, 80, 100
\* and 100 is emitted only on runs that end in finished.
C8_OneTerminalSignalAfterProgress ==
    /\ RunOver(scraping_thread)
          => /\ Len(scraping_thread.emitted) >= 1
             /\ IsTerminal(Last(scraping_thread.emitted))
             /\ Emitted100(scraping_thread.emitted)
                   <=> Last(scraping_thread.emitted).sig = "finished"
    /\ \A i \in 1..Len(scraping_thread.emitted) :
          IsTerminal(scraping_thread.emitted[i])
             => (i = Len(scraping_thread.emitted) /\ ~(scraping_thread.pc \in
                    {"p20", "scrape", "p60", "p80", "analyze", "p100", "finished",
                     "except"}))
    /\ ProgressInOrder(scraping_thread.emitted)
    /\ \A i \in 1..Len(queue) : IsTerminal(queue[i]) => i = Len(queue)

\* C8 witness: a run has returned after 20, 60, 80, 100 and finished
C8_Witness ==
    /\ scraping_thread.pc = "done"
    /\ Len(scraping_thread.emitted) = 5
    /\ Last(scraping_thread.emitted).sig = "finished"

\* C9: a call of analyze leaves the records passed to it unchanged, and
\* after any number of calls every returned record has exactly 12 values.
C9_AnalyzeLeavesInputUnchanged ==
    (a_calls >= 1 /\ a_status = "returned")
    => /\ Len(a_matrix) = Len(a_input)
       /\ \A i \in 1..Len(a_input) : Len(a_matrix[i]) = Len(a_input[i])
       /\ \A i \in 1..Len(a_input) : a_matrix[i] = a_input[i]
       /\ \A i \in 1..Len(a_ret) : Len(a_ret[i]) = 12

\* a thread has been started and its finished or error signal has not been
\* handled yet
InFlight ==
    \/ scraping_thread.pc \in (RunningPcs \ {"returning"})
    \/ \E i \in 1..Len(queue) : IsTerminal(queue[i])

====
